---------------------------- MODULE Spec2Model ----------------------------
(***************************************************************************)
(* A model of the StorinfoClient of node-storinfo (lib/client.js): the     *)
(* per-datacenter topology snapshot installed by sortAndStoreDcs, the       *)
(* placement algorithm of StorinfoClient.prototype.choose, and the refresh *)
(* of the snapshot by doPoll, poll and pollSpecific.                       *)
(*                                                                         *)
(* Array indices are kept 0-based as in the JavaScript source; a TLA+      *)
(* sequence element at JavaScript index s is seq[s + 1].                   *)
(***************************************************************************)
EXTENDS Integers, Sequences, FiniteSets, TLC

\* ------------------------------------------------------------------------
\* Program constants (lib/client.js)
DEF_NUM_COPIES == 2
DEF_MAX_STREAMING_SIZE_MB == 5120
DEF_MAX_PERCENT_UTIL == 90
\* bytes per MB, the divisor of Math.ceil((opts.size || 0) / 1048576)
MB == 1048576

\* Bounds of the model
\* the largest explicit replica count a request asks for
MaxReplicas == 3
\* how many entries of the Catalogue the installed maps draw from
MaxNodes == 5
\* how many times doPoll runs
MaxPolls == 2
\* how many pages the service splits one answer into
MaxPages == 2
\* the longest list and the largest availableMB lower_bound is applied to
MaxLen == 4
MaxMB == 4

\* JavaScript values that may be undefined or null are tagged records
UNDEF == [type |-> "undefined"]
NULL == [type |-> "null"]
Num(n) == [type |-> "number", val |-> n]
Bool(b) == [type |-> "boolean", val |-> b]
Arr(a) == [type |-> "array", val |-> a]
Obj(o) == [type |-> "object", val |-> o]

\* ------------------------------------------------------------------------
\* The storage nodes the model draws snapshots from.  key is the property of
\* the map the node is stored under, node the manta_storage object itself.
\* The entry whose key differs from node.datacenter can only come from a
\* direct call of the exported sortAndStoreDcs.
MkNode(id, dc, avail, used) ==
    [manta_storage_id |-> id, datacenter |-> dc,
     availableMB |-> avail, percentUsed |-> used]

Catalogue ==
    << [key |-> "dc1", node |-> MkNode("a2", "dc1", 6000, 50)],
       [key |-> "dc1", node |-> MkNode("a1", "dc1", 100, 50)],
       [key |-> "dc2", node |-> MkNode("x1", "dc1", 6000, 50)],
       [key |-> "dc2", node |-> MkNode("b1", "dc2", 6000, 91)],
       [key |-> "dc3", node |-> MkNode("c1", "dc3", 7000, 50)],
       [key |-> "dc3", node |-> MkNode("c2", "dc3", 100, 91)],
       [key |-> "dc2", node |-> MkNode("b2", "dc2", 100, 50)] >>

Entries == {Catalogue[n] : n \in 1..(IF MaxNodes < Len(Catalogue)
                                     THEN MaxNodes ELSE Len(Catalogue))}

\* property order of the maps handed to sortAndStoreDcs
KeyOrder == <<"dc1", "dc2", "dc3">>

\* request inputs: size in bytes (0 stands for an absent size as well, both
\* are falsy in opts.size || 0), replicas (0 for absent), isOperator
SizeInputs == {0, 100 * MB, 100 * MB + 1}
ReplicaInputs == {0, 1, MaxReplicas}
ChooseOpts == [size : SizeInputs, replicas : ReplicaInputs, isOperator : BOOLEAN]

\* constructor inputs (a standalone client is given no pollInterval)
ClientOpts ==
    {o \in [standalone : BOOLEAN, pollInterval : {UNDEF, Num(1)},
            multiDC : {UNDEF, Bool(FALSE)},
            defaultMaxStreamingSizeMB : {UNDEF, Num(100)},
            maxUtilizationPct : {UNDEF}] :
        o.standalone => o.pollInterval = UNDEF}

\* ------------------------------------------------------------------------
VARIABLES
    \* the options the client was created with, and whether close() has
    \* been called on it
    created, closed,
    \* fields of the StorinfoClient object
    standalone, multiDC, pollInterval, defMaxSizeMB, utilization,
    dcSharkMap, operatorDcSharkMap, datacenters, operatorDatacenters, dcIndex,
    \* the arguments of the latest run of sortAndStoreDcs (null before the
    \* first)
    refresh,
    \* the choose call in progress: position and locals
    pc, opts, size, replicas, dcs, offsets, filtered, seen, sharks, tuple, i,
    \* what the call did: the result of each set() and each host(), and the
    \* invocation of the callback (or the exception that escaped)
    built, hosts, outcome,
    \* the event loop: the functions queued by setImmediate, the number of
    \* pending setTimeout timers, the field pollTimer of the client, and the
    \* HTTP requests in flight
    immediate, timers, pollTimer, requests,
    \* whether a 'topology' listener is registered, and what it was handed
    listening, events,
    \* the runs of doPoll: how many started, how each ended, and the results
    \* handed to its callback with no error
    polls, pollLog, answers,
    \* the exceptions no caller caught
    uncaught,
    \* the poll or pollSpecific call of the user: which one, the invocations
    \* of its callback, and the exception the call itself threw
    userCall, userCb, userThrown,
    \* an application of lower_bound: its arguments and its result
    lbSet, lbSize, lbResult

configVars ==
    <<created, standalone, multiDC, pollInterval, defMaxSizeMB, utilization>>
clientVars == <<configVars, closed>>
snapVars == <<dcSharkMap, operatorDcSharkMap, datacenters, operatorDatacenters,
              refresh>>
callVars == <<pc, opts, size, replicas, dcs, offsets, filtered, seen, sharks,
              tuple, i, built, hosts, outcome>>
loopVars == <<immediate, timers, pollTimer, requests>>
runVars == <<polls, pollLog, uncaught, answers>>
userVars == <<userCall, userCb, userThrown>>
pollVars == <<loopVars, listening, events, runVars, userVars>>
lbVars == <<lbSet, lbSize, lbResult>>
vars == <<clientVars, snapVars, dcIndex, callVars, pollVars, lbVars>>

\* ------------------------------------------------------------------------
\* Helpers on sequences
SeqToSet(s) == {s[n] : n \in 1..Len(s)}

RECURSIVE SelectKeys(_, _)
SelectKeys(order, keys) ==
    IF order = <<>> THEN <<>>
    ELSE IF Head(order) \in keys
         THEN <<Head(order)>> \o SelectKeys(Tail(order), keys)
         ELSE SelectKeys(Tail(order), keys)

\* Array.prototype.indexOf: the first 0-based index of e in s, or -1
indexOf(s, e) ==
    IF \E n \in 1..Len(s) : s[n] = e
    THEN (CHOOSE n \in 1..Len(s) : s[n] = e /\ \A m \in 1..(n - 1) : s[m] # e) - 1
    ELSE -1

\* the elements of the sequence list in the order given by the bijection f
Reorder(list, f) == [n \in 1..Len(list) |-> list[f[n]]]

\* ------------------------------------------------------------------------
\* shuffle: the arrays the Fisher-Yates loop can leave, one per sequence of
\* draws i = Math.floor(Math.random() * m--), 0 <= i < m
Swap(array, m, n) ==
    [k \in 1..Len(array) |->
        IF k = m THEN array[n] ELSE IF k = n THEN array[m] ELSE array[k]]

RECURSIVE shuffleFrom(_, _)
shuffleFrom(array, m) ==
    IF m = 0 THEN {array}
    ELSE UNION {shuffleFrom(Swap(array, m, r + 1), m - 1) : r \in 0..(m - 1)}

shuffle(array) == shuffleFrom(array, Len(array))

\* random(min, max): the values of Math.floor(Math.random() * (max - min + 1))
\* + min for Math.random() in [0, 1); skip is never passed.  With max < min
\* the factor is zero or negative and the result lies in max + 1 .. min.
random(min, max) ==
    IF max >= min THEN min..max ELSE (max + 1)..min

\* a >= size and a < size for a number a; both are false when size is
\* undefined
atLeast(a, sz) == sz.type = "number" /\ a >= sz.val
lessThan(a, sz) == sz.type = "number" /\ a < sz.val

\* a search that moves high only past nodes with more than the size
RECURSIVE lowerBoundLoop_Greater(_, _, _, _)
lowerBoundLoop_Greater(set, sz, low, high) ==
    IF low < high
    THEN LET mid == low + ((high - low) \div 2)
         IN  IF atLeast(set[mid + 1].availableMB, Num(sz.val + 1))
             THEN lowerBoundLoop_Greater(set, sz, low, mid)
             ELSE lowerBoundLoop_Greater(set, sz, mid + 1, high)
    ELSE low

\* lower_bound(set, size): the binary search, then the final test
RECURSIVE lowerBoundLoop(_, _, _, _)
lowerBoundLoop(set, sz, low, high) ==
    IF low < high
    THEN LET mid == low + ((high - low) \div 2)
         IN  IF atLeast(set[mid + 1].availableMB, sz)
             THEN lowerBoundLoop(set, sz, low, mid)
             ELSE lowerBoundLoop(set, sz, mid + 1, high)
    ELSE low

\* lower_bound whose final test rejects a node of exactly the size
lower_bound_Strict(set, sz) ==
    LET low == lowerBoundLoop(set, sz, 0, Len(set))
    IN  IF low >= Len(set) \/ lessThan(set[low + 1].availableMB, sz)
           \/ (sz.type = "number" /\ set[low + 1].availableMB = sz.val)
        THEN -1 ELSE low

lower_bound(set, sz) ==
    LET low == lowerBoundLoop(set, sz, 0, Len(set))
    IN  IF low >= Len(set) \/ lessThan(set[low + 1].availableMB, sz)
        THEN -1 ELSE low

\* a comparator that orders by descending availableMB
storageZoneComparator_Descending(a, b) ==
    IF a.availableMB > b.availableMB THEN -1
    ELSE IF a.availableMB < b.availableMB THEN 1
    ELSE 0

\* storageZoneComparator(a, b)
storageZoneComparator(a, b) ==
    IF a.availableMB < b.availableMB THEN -1
    ELSE IF a.availableMB > b.availableMB THEN 1
    ELSE 0

\* Array.prototype.sort(storageZoneComparator): every ordering of the array
\* that the comparator accepts (elements that compare equal may end in
\* either order, the engine's sort need not be stable)
sortResults(list) ==
    {p \in {Reorder(list, f) : f \in Permutations(1..Len(list))} :
        \A n \in 1..(Len(list) - 1) : storageZoneComparator(p[n], p[n + 1]) <= 0}

\* all maps that sorting every array of the map obj can give
sortedMaps(obj) ==
    {m \in [DOMAIN obj -> UNION {sortResults(obj[k]) : k \in DOMAIN obj}] :
        \A k \in DOMAIN obj : m[k] \in sortResults(obj[k])}

\* ------------------------------------------------------------------------
\* The maps a caller hands to sortAndStoreDcs.  A map is built from a set of
\* catalogue entries: keys lists its properties in insertion order and val
\* gives the (unsorted) array of each.
RECURSIVE NodesUnder(_, _, _)
NodesUnder(cat, S, k) ==
    IF cat = <<>> THEN <<>>
    ELSE IF Head(cat) \in S /\ Head(cat).key = k
         THEN <<Head(cat).node>> \o NodesUnder(Tail(cat), S, k)
         ELSE NodesUnder(Tail(cat), S, k)

MapOf(S) ==
    [keys |-> SelectKeys(KeyOrder, {e.key : e \in S}),
     val |-> [k \in {e.key : e \in S} |-> NodesUnder(Catalogue, S, k)]]

\* the entries at or below the utilization threshold for normal requests
Normal(S) == {e \in S : e.node.percentUsed <= DEF_MAX_PERCENT_UTIL}

\* the pairs (dcObj, opDcObj) installed: the operator view holds the chosen
\* entries, the normal view those of them at or below the threshold (the
\* same map twice, as in the test, when all of them are)
InstallInputs ==
    {[dcObj |-> MapOf(Normal(S)), opDcObj |-> MapOf(S)] : S \in SUBSET Entries}

\* ------------------------------------------------------------------------
\* new StorinfoClient(opts)
NoCall ==
    [pc |-> "idle", opts |-> [size |-> 0, replicas |-> 0, isOperator |-> FALSE],
     size |-> UNDEF, replicas |-> 0, dcs |-> <<>>, offsets |-> <<>>,
     filtered |-> <<>>, seen |-> <<>>, sharks |-> <<>>, tuple |-> <<>>,
     i |-> 0, built |-> <<>>, hosts |-> <<>>]

NoOutcome == [cb |-> 0, err |-> NULL, sharks |-> NULL, thrown |-> "none"]

StorinfoClient(o) ==
    /\ created = o
    /\ closed = FALSE
    /\ standalone = o.standalone
    /\ multiDC = (IF o.multiDC = UNDEF THEN TRUE ELSE o.multiDC.val)
    /\ dcSharkMap = NULL
    /\ operatorDcSharkMap = NULL
    /\ dcIndex = -1
    /\ datacenters = NULL
    /\ operatorDatacenters = UNDEF
    /\ IF o.pollInterval # UNDEF /\ ~o.standalone
       THEN /\ pollInterval = Num(o.pollInterval.val * 1000)
            /\ defMaxSizeMB = (IF o.defaultMaxStreamingSizeMB = UNDEF
                                  \/ o.defaultMaxStreamingSizeMB.val = 0
                               THEN Num(DEF_MAX_STREAMING_SIZE_MB)
                               ELSE o.defaultMaxStreamingSizeMB)
            /\ utilization = (IF o.maxUtilizationPct = UNDEF
                                 \/ o.maxUtilizationPct.val = 0
                              THEN Num(DEF_MAX_PERCENT_UTIL)
                              ELSE o.maxUtilizationPct)
            /\ immediate = <<[fn |-> "doPoll"]>>
       ELSE /\ pollInterval = UNDEF
            /\ defMaxSizeMB = UNDEF
            /\ utilization = UNDEF
            /\ immediate = <<>>
    /\ pollTimer = UNDEF

\* no timer is pending, no request is in flight, nothing has run yet
QuietLoop ==
    /\ timers = 0 /\ requests = {} /\ events = <<>> /\ refresh = NULL
    /\ polls = 0 /\ pollLog = <<>> /\ uncaught = {} /\ answers = <<>>
    /\ userCall = "none" /\ userCb = <<>> /\ userThrown = "none"

\* lower_bound has not been applied
NoLowerBound == lbSet = <<>> /\ lbSize = Num(0) /\ lbResult = NULL

\* no choose call is running
Idle ==
    /\ pc = NoCall.pc /\ opts = NoCall.opts /\ size = NoCall.size
    /\ replicas = NoCall.replicas /\ dcs = NoCall.dcs
    /\ offsets = NoCall.offsets /\ filtered = NoCall.filtered
    /\ seen = NoCall.seen /\ sharks = NoCall.sharks /\ tuple = NoCall.tuple
    /\ i = NoCall.i /\ built = NoCall.built /\ hosts = NoCall.hosts
    /\ outcome = NoOutcome

Init ==
    /\ \E o \in ClientOpts : StorinfoClient(o)
    /\ Idle
    /\ QuietLoop /\ listening = FALSE
    /\ NoLowerBound

\* ------------------------------------------------------------------------
\* sortAndStoreDcs.call(client, dcObj, opDcObj).  JavaScript runs a function
\* to completion, so it never starts while a choose call is running.
\* a store that replaces the two key arrays and leaves the maps in place
storeDcs_KeysOnly(dcObj, opDcObj, sorted, opSorted) ==
    [datacenters |-> Arr(dcObj.keys), operatorDatacenters |-> Arr(opDcObj.keys),
     dcSharkMap |-> dcSharkMap, operatorDcSharkMap |-> operatorDcSharkMap]

\* the four fields sortAndStoreDcs assigns, sorted and opSorted being the
\* sorted maps
storeDcs(dcObj, opDcObj, sorted, opSorted) ==
    [datacenters |-> IF Len(dcObj.keys) > 0 THEN Arr(dcObj.keys) ELSE Arr(<<>>),
     operatorDatacenters |-> IF Len(opDcObj.keys) > 0 THEN Arr(opDcObj.keys)
                             ELSE Arr(<<>>),
     dcSharkMap |-> Obj(sorted),
     operatorDcSharkMap |-> Obj(opSorted)]

\* the four snapshot fields as a function called now reads them
snapshot ==
    [datacenters |-> datacenters, operatorDatacenters |-> operatorDatacenters,
     dcSharkMap |-> dcSharkMap, operatorDcSharkMap |-> operatorDcSharkMap]

\* an emit that runs the listeners before the fields are assigned
topology_BeforeStore(stored) ==
    [payload |-> <<stored.dcSharkMap, stored.operatorDcSharkMap>>,
     seen |-> snapshot]

\* this.emit('topology', [this.dcSharkMap, this.operatorDcSharkMap]): what a
\* listener is handed (payload) and the fields of the client it reads while
\* it runs (seen), stored being the fields as just assigned
topology(stored) ==
    [payload |-> <<stored.dcSharkMap, stored.operatorDcSharkMap>>,
     seen |-> stored]

sortAndStoreDcs(dcObj, opDcObj) ==
    /\ pc = "idle"
    /\ \E sorted \in sortedMaps(dcObj.val), opSorted \in sortedMaps(opDcObj.val) :
          LET stored == storeDcs(dcObj, opDcObj, sorted, opSorted)
          IN  /\ datacenters' = stored.datacenters
              /\ operatorDatacenters' = stored.operatorDatacenters
              /\ dcSharkMap' = stored.dcSharkMap
              /\ operatorDcSharkMap' = stored.operatorDcSharkMap
              /\ events' = IF listening THEN Append(events, topology(stored))
                           ELSE events
    /\ refresh' = [dcObj |-> dcObj, opDcObj |-> opDcObj]

\* a caller applies the exported sortAndStoreDcs to a client
Install(dcObj, opDcObj) ==
    /\ sortAndStoreDcs(dcObj, opDcObj)
    /\ UNCHANGED <<clientVars, dcIndex, callVars, loopVars, listening, runVars,
                   userVars, lbVars>>

\* ------------------------------------------------------------------------
\* StorinfoClient.prototype.choose

\* the error causes of choose
NO_DC == "no DC with sufficient space"
FEW_DCS == "%d copies requested, but only %d DC(s) have sufficient space"
COPIES_EXCEED == "copies requested exceeds number of available storage nodes"
FEW_DCS_SELECTED == "insufficient number of DCs selected"

NotEnoughSpaceError(sz, cause) ==
    [type |-> "NotEnoughSpaceError", size |-> sz, cause |-> cause]

\* var size = Math.ceil((opts.size || 0) / 1048576) || this.defMaxSizeMB
chooseSize(o, defMax) ==
    LET mb == (o.size + MB - 1) \div MB
    IN  IF mb # 0 THEN Num(mb) ELSE defMax

\* var replicas = opts.replicas || DEF_NUM_COPIES
chooseReplicas(o) == IF o.replicas # 0 THEN o.replicas ELSE DEF_NUM_COPIES

\* filterDatacenters(sharkMap, dc): acc holds the locals dcs and offsets
filterDatacenters(acc, sharkMap, dc, sz) ==
    LET l == lower_bound(sharkMap[dc], sz)
    IN  IF l # -1
        THEN [dcs |-> Append(acc.dcs, dc), offsets |-> Append(acc.offsets, l)]
        ELSE acc

\* keys.forEach(filterFun)
RECURSIVE forEachFilter(_, _, _, _)
forEachFilter(acc, sharkMap, keys, sz) ==
    IF keys = <<>> THEN acc
    ELSE forEachFilter(filterDatacenters(acc, sharkMap, Head(keys), sz),
                       sharkMap, Tail(keys), sz)

\* a validation that asks for two datacenters whatever multiDC says
validationCause_IgnoringMultiDC(ndcs, reps, multi) ==
    IF ndcs = 0 THEN NO_DC
    ELSE IF reps > 1 /\ ndcs < 2 THEN FEW_DCS
    ELSE ""

\* a validation that lets a single candidate datacenter pass
validationCause_OneDcPasses(ndcs, reps, multi) ==
    IF ndcs = 0 THEN NO_DC ELSE ""

\* the candidate validation: the cause set when enoughDCs stays false, ""
\* when it becomes true
validationCause(ndcs, reps, multi) ==
    IF ndcs = 0 THEN NO_DC
    ELSE IF reps > 1 /\ multi /\ ndcs < 2 THEN FEW_DCS
    ELSE ""

\* the walk of host() after the random index s hit a seen node
RECURSIVE hostScan(_, _, _, _, _)
hostScan(dc, off, start, s, seenIds) ==
    LET nxt == IF s + 1 = Len(dc) THEN off ELSE s + 1
    IN  IF nxt = start THEN [kind |-> "null", s |-> -1, seen |-> seenIds]
        ELSE IF nxt < 0 \/ nxt >= Len(dc)
             THEN [kind |-> "throw", s |-> nxt, seen |-> seenIds]
        ELSE IF indexOf(seenIds, dc[nxt + 1].manta_storage_id) # -1
             THEN hostScan(dc, off, start, nxt, seenIds)
        ELSE [kind |-> "node", s |-> nxt,
              seen |-> Append(seenIds, dc[nxt + 1].manta_storage_id)]

\* host() without the test of the seen list
hostFrom_IgnoringSeen(dc, off, s, seenIds) ==
    IF s < 0 \/ s >= Len(dc)
    THEN [kind |-> "throw", s |-> s, seen |-> seenIds]
    ELSE [kind |-> "node", s |-> s,
          seen |-> Append(seenIds, dc[s + 1].manta_storage_id)]

\* host() from the random index s on; dc[s] undefined makes the read of
\* dc[s].manta_storage_id throw a TypeError
hostFrom(dc, off, s, seenIds) ==
    IF s < 0 \/ s >= Len(dc)
    THEN [kind |-> "throw", s |-> s, seen |-> seenIds]
    ELSE IF indexOf(seenIds, dc[s + 1].manta_storage_id) = -1
         THEN [kind |-> "node", s |-> s,
               seen |-> Append(seenIds, dc[s + 1].manta_storage_id)]
         ELSE hostScan(dc, off, s, s, seenIds)

\* a cursor that is brought into range and then stays where it is
nextDcIndex_Stuck(idx, ndcs) == IF idx < 0 \/ idx >= ndcs THEN 0 ELSE idx

\* a cursor that wraps by a modulus, whatever value it starts from
nextDcIndex_Modulo(idx, ndcs) == (idx + 1) % ndcs

\* if (++self.dcIndex >= dcs.length) self.dcIndex = 0
nextDcIndex(idx, ndcs) == IF idx + 1 >= ndcs THEN 0 ELSE idx + 1

\* a host() that scans every list from its first position
hostOffset_FromStart(offs, ndx) == 0

\* the offset host() uses for index ndx
hostOffset(offs, ndx) == offs[ndx + 1]

\* the number of distinct datacenters of a tuple (map, then reduce)
tupleDcs(t) == Cardinality({t[n].datacenter : n \in 1..Len(t)})

\* a spread check that never fails the call
spreadFails_Never(t, multi, reps) == FALSE

\* the spread check of a built tuple: TRUE when the call must fail
spreadFails(t, multi, reps) == multi /\ reps > 1 /\ tupleDcs(t) < 2

\* a choose that reads the operator map for every request
viewMap_OperatorOnly(o) == operatorDcSharkMap

\* the map and the key array choose reads for this request
viewMap(o) == IF o.isOperator THEN operatorDcSharkMap ELSE dcSharkMap
viewKeys(o) == IF o.isOperator THEN operatorDatacenters ELSE datacenters

Threw(name) == [cb |-> 0, err |-> NULL, sharks |-> NULL, thrown |-> name]
Failed(sz, cause) ==
    [cb |-> 1, err |-> NotEnoughSpaceError(sz, cause), sharks |-> NULL,
     thrown |-> "none"]
Chosen(sets) == [cb |-> 1, err |-> NULL, sharks |-> Arr(sets), thrown |-> "none"]

\* choose(opts, cb) up to and including dcs = shuffle(dcs).  ndebug tells
\* whether the process runs with NODE_NDEBUG set, which turns the checks of
\* assert-plus into no-ops.
ChooseCall(o, ndebug) ==
    /\ pc = "idle"
    /\ opts' = o
    /\ size' = chooseSize(o, defMaxSizeMB)
    /\ replicas' = chooseReplicas(o)
    /\ seen' = <<>> /\ sharks' = <<>> /\ tuple' = <<>> /\ i' = 0
    /\ built' = <<>> /\ hosts' = <<>>
    /\ IF viewKeys(o).type # "array"
       THEN \* forEach of null or undefined
            /\ pc' = "done" /\ outcome' = Threw("TypeError")
            /\ dcs' = <<>> /\ offsets' = <<>> /\ filtered' = <<>>
       ELSE IF ~ndebug /\ viewKeys(o).val # <<>> /\ size'.type # "number"
       THEN \* assert.number(size, 'size') of lower_bound
            /\ pc' = "done" /\ outcome' = Threw("AssertionError")
            /\ dcs' = <<>> /\ offsets' = <<>> /\ filtered' = <<>>
       ELSE LET acc == forEachFilter([dcs |-> <<>>, offsets |-> <<>>],
                                     viewMap(o).val, viewKeys(o).val, size')
                cause == validationCause(Len(acc.dcs), replicas', multiDC)
            IN  /\ filtered' = acc.dcs
                /\ offsets' = acc.offsets
                /\ IF cause # ""
                   THEN /\ pc' = "done" /\ dcs' = acc.dcs
                        /\ outcome' = Failed(size', cause)
                   ELSE /\ pc' = "picking"
                        /\ dcs' \in shuffle(acc.dcs)
                        /\ outcome' = NoOutcome
    /\ UNCHANGED <<clientVars, snapVars, dcIndex, pollVars, lbVars>>

\* set() returning the array built so far when a pick fails
setStep_ReturningPartial(t, r, reps) ==
    IF r.kind = "null" THEN [done |-> TRUE, value |-> Arr(t), s |-> <<>>]
    ELSE IF Len(t) + 1 < reps
         THEN [done |-> FALSE, value |-> NULL, s |-> Append(t, r.picked)]
         ELSE [done |-> TRUE, value |-> Arr(Append(t, r.picked)), s |-> <<>>]

\* set(): what the loop of set() does with the result r of a host() call,
\* t being the array s built so far.  done is FALSE while the loop goes on;
\* otherwise value is what set() returns.
setStep(t, r, reps) ==
    IF r.kind = "null" THEN [done |-> TRUE, value |-> NULL, s |-> <<>>]
    ELSE IF Len(t) + 1 < reps
         THEN [done |-> FALSE, value |-> NULL, s |-> Append(t, r.picked)]
         ELSE [done |-> TRUE, value |-> Arr(Append(t, r.picked)), s |-> <<>>]

\* a loop body for which every null tuple is fatal
loopStep_EveryNullFatal(sets, tup, reps, multi) ==
    IF tup = NULL \/ (sets = <<>> /\ Len(tup.val) < reps)
    THEN [cause |-> COPIES_EXCEED, sharks |-> sets]
    ELSE IF spreadFails(tup.val, multi, reps)
    THEN [cause |-> FEW_DCS_SELECTED, sharks |-> sets]
    ELSE [cause |-> "", sharks |-> Append(sets, tup.val)]

\* the body of the loop over the three sets, for the tuple set() returned:
\* the cause the call fails with ("" when it goes on) and the sets so far
loopStep(sets, tup, reps, multi) ==
    IF sets = <<>> /\ (tup = NULL \/ Len(tup.val) < reps)
    THEN [cause |-> COPIES_EXCEED, sharks |-> sets]
    ELSE IF tup # NULL /\ spreadFails(tup.val, multi, reps)
    THEN [cause |-> FEW_DCS_SELECTED, sharks |-> sets]
    ELSE [cause |-> "",
          sharks |-> IF tup # NULL THEN Append(sets, tup.val) ELSE sets]

\* one host() call of the running choose, with what set() and the loop over
\* the three sets do with its result
Host ==
    /\ pc = "picking"
    /\ LET ndx == nextDcIndex(dcIndex, Len(dcs))
           dc == viewMap(opts).val[dcs[ndx + 1]]
           off == hostOffset(offsets, ndx)
       IN  \E s0 \in random(off, Len(dc) - 1) :
             LET h == hostFrom(dc, off, s0, seen)
                 r == [kind |-> h.kind,
                       picked |-> IF h.kind = "node"
                                  THEN [datacenter |-> dc[h.s + 1].datacenter,
                                        manta_storage_id |->
                                            dc[h.s + 1].manta_storage_id]
                                  ELSE NULL]
                 st == setStep(tuple, r, replicas)
                 lp == loopStep(sharks, st.value, replicas, multiDC)
             IN  /\ dcIndex' = ndx
                 /\ seen' = h.seen
                 /\ hosts' = Append(hosts,
                        [from |-> dcIndex, ndx |-> ndx, dc |-> dcs[ndx + 1],
                         off |-> off, len |-> Len(dc), kind |-> h.kind,
                         s |-> h.s])
                 /\ IF h.kind = "throw"
                    THEN /\ pc' = "done" /\ outcome' = Threw("TypeError")
                         /\ UNCHANGED <<sharks, tuple, i, built>>
                    ELSE IF ~st.done
                    THEN /\ tuple' = st.s
                         /\ UNCHANGED <<pc, outcome, sharks, i, built>>
                    ELSE /\ tuple' = st.s
                         /\ built' = Append(built, st.value)
                         /\ sharks' = lp.sharks
                         /\ IF lp.cause # ""
                            THEN /\ pc' = "done"
                                 /\ outcome' = Failed(size, lp.cause)
                                 /\ UNCHANGED i
                            ELSE /\ i' = i + 1
                                 /\ IF i + 1 < 3
                                    THEN UNCHANGED <<pc, outcome>>
                                    ELSE /\ pc' = "done"
                                         /\ outcome' = Chosen(lp.sharks)
    /\ UNCHANGED <<clientVars, snapVars, opts, size, replicas, dcs, offsets,
                   filtered, pollVars, lbVars>>

\* choose has returned (or its exception has unwound): the locals of the call
\* are gone and the next function can run
ChooseReturn ==
    /\ pc = "done"
    /\ pc' = NoCall.pc /\ opts' = NoCall.opts /\ size' = NoCall.size
    /\ replicas' = NoCall.replicas /\ dcs' = NoCall.dcs
    /\ offsets' = NoCall.offsets /\ filtered' = NoCall.filtered
    /\ seen' = NoCall.seen /\ sharks' = NoCall.sharks /\ tuple' = NoCall.tuple
    /\ i' = NoCall.i /\ built' = NoCall.built /\ hosts' = NoCall.hosts
    /\ outcome' = NoOutcome
    /\ UNCHANGED <<clientVars, snapVars, dcIndex, pollVars, lbVars>>

\* ------------------------------------------------------------------------
Next ==
    \/ \E in \in InstallInputs : Install(in.dcObj, in.opDcObj)
    \/ \E o \in ChooseOpts, ndebug \in BOOLEAN : ChooseCall(o, ndebug)
    \/ Host
    \/ ChooseReturn

Spec == Init /\ [][Next]_vars

\* ------------------------------------------------------------------------
\* The Storinfo service and the refresh of the snapshot

\* the pages the service answers GET /poll with: arrays of manta_storage
\* objects, in the order the service lists them (not sorted by availableMB)
Pages ==
    { <<>>,
      << MkNode("a2", "dc1", 6000, 50), MkNode("b3", "dc2", 6500, 70),
         MkNode("a1", "dc1", 100, 50) >>,
      << MkNode("b3", "dc2", 6500, 70), MkNode("b1", "dc2", 6000, 91),
         MkNode("c1", "dc3", 7000, 50) >> }

\* what restify hands the callback of http.get: err (set or null), res
\* (undefined when no response arrived), the parsed body obj, and whether
\* res.headers.link is set.  An error carries no body array and no link.
Responses ==
    {r \in [err : BOOLEAN, res : BOOLEAN, obj : Pages, link : BOOLEAN] :
        /\ r.err => (~r.link /\ r.obj = <<>>)
        /\ ~r.err => r.res}

HttpError == [type |-> "HttpError"]
StandaloneModeError == [type |-> "StandaloneModeError"]

\* constructor inputs of the clients that poll or are polled by hand
PollClientOpts ==
    {o \in [standalone : BOOLEAN, pollInterval : {UNDEF, Num(1)},
            multiDC : {UNDEF}, defaultMaxStreamingSizeMB : {UNDEF},
            maxUtilizationPct : {UNDEF, Num(50)}] :
        o.standalone => o.pollInterval = UNDEF}

\* the requests choose is called with while the snapshot is refreshed
PollChooseOpts ==
    {o \in ChooseOpts : o.size = 100 * MB /\ o.replicas = 1}

\* the maps a standalone client is given by hand while it is asked to poll
DirectInputs ==
    {in \in InstallInputs : Len(in.opDcObj.keys) <= 1 /\ Len(in.dcObj.keys) <= 1
                            /\ in.dcObj.keys \in {<<>>, <<"dc1">>}}

\* obj[k].push(v), obj[k] being created first when it is missing; keys keeps
\* the insertion order of the properties
pushUnder(obj, k, v) ==
    IF k \in DOMAIN obj.val
    THEN [keys |-> obj.keys, val |-> [obj.val EXCEPT ![k] = Append(@, v)]]
    ELSE [keys |-> Append(obj.keys, k),
          val |-> [j \in DOMAIN obj.val \cup {k} |->
                      IF j = k THEN <<v>> ELSE obj.val[j]]]

\* a grouping that puts every node into the normal view
sortByDatacenter_NoThreshold(acc, maxUtilization, v) ==
    [opDcObj |-> pushUnder(acc.opDcObj, v.datacenter, v),
     dcObj |-> pushUnder(acc.dcObj, v.datacenter, v)]

\* sortByDatacenter(maxUtilization, v) of doPoll; acc holds the locals dcObj
\* and opDcObj
sortByDatacenter(acc, maxUtilization, v) ==
    [opDcObj |-> pushUnder(acc.opDcObj, v.datacenter, v),
     dcObj |-> IF v.percentUsed <= maxUtilization.val
               THEN pushUnder(acc.dcObj, v.datacenter, v)
               ELSE acc.dcObj]

\* res.forEach(sortByDatacenter.bind(self, self.utilization))
RECURSIVE forEachSort(_, _, _)
forEachSort(acc, maxUtilization, res) ==
    IF res = <<>> THEN acc
    ELSE forEachSort(sortByDatacenter(acc, maxUtilization, Head(res)),
                     maxUtilization, Tail(res))

\* var dcObj = {}; var opDcObj = {}
EmptyObjs == [dcObj |-> MapOf({}), opDcObj |-> MapOf({})]

\* a callback of doPoll that takes an error for a result
doPollCallback_IgnoringErr(res, err) ==
    LET acc == forEachSort(EmptyObjs, utilization,
                           IF res = NULL THEN <<>> ELSE res.val)
    IN  [thrown |-> "none", timer |-> 1,
         task |-> <<[fn |-> "sortAndStoreDcs", dcObj |-> acc.dcObj,
                     opDcObj |-> acc.opDcObj]>>]

\* the callback doPoll hands to poll, called as callback(res, err): what it
\* throws, how many timers it sets, and what it queues with setImmediate.
\* It is called as a plain function, so its this is the global object and
\* this.log is undefined: the read of this.log.error throws a TypeError.
doPollCallback(res, err) ==
    IF err # NULL
    THEN [thrown |-> "TypeError: this.log is undefined", timer |-> 0,
          task |-> <<>>]
    ELSE LET acc == forEachSort(EmptyObjs, utilization, res.val)
         IN  [thrown |-> "none", timer |-> 1,
              task |-> <<[fn |-> "sortAndStoreDcs", dcObj |-> acc.dcObj,
                          opDcObj |-> acc.opDcObj]>>]

\* poll(args, callback) up to this.http.get: the invocations of callback, the
\* exception thrown, and the request sent.  by names the callback, uriParams
\* tells whether args.uriParams is an object, depth counts the pages fetched
\* before, res is args.res.  A standalone client has no this.http.
poll(by, uriParams, depth, res) ==
    IF standalone
    THEN [calls |-> <<[res |-> NULL, err |-> StandaloneModeError]>>,
          thrown |-> "TypeError: this.http is undefined", request |-> {}]
    ELSE [calls |-> <<>>, thrown |-> "none",
          request |-> {[by |-> by, api |-> "poll", depth |-> depth,
                        uriParams |-> uriParams, res |-> res]}]

\* pollSpecific(storageid, callback) up to this.http.get
pollSpecific(by) ==
    IF standalone
    THEN [calls |-> <<[res |-> NULL, err |-> StandaloneModeError]>>,
          thrown |-> "TypeError: this.http is undefined", request |-> {}]
    ELSE [calls |-> <<>>, thrown |-> "none",
          request |-> {[by |-> by, api |-> "pollSpecific", depth |-> 0,
                        uriParams |-> FALSE, res |-> <<>>]}]

\* the callback poll hands to http.get, for the request rq and the answer
\* rsp: the invocations of the callback of the first poll call (the
\* callbacks of the nested calls pass args.res and their error on), how the
\* function ends, and args.res afterwards
pollHandler(rq, rsp) ==
    LET early == IF rsp.err
                 THEN <<[res |-> IF rq.depth = 0 THEN NULL ELSE Arr(rq.res),
                         err |-> HttpError]>>
                 ELSE <<>>
        res1 == rq.res \o rsp.obj
    IN  IF ~rsp.res
        THEN [calls |-> early, end |-> "TypeError: res is undefined",
              res |-> res1]
        ELSE IF rsp.link
        THEN IF ~rq.uriParams
             THEN [calls |-> early,
                   end |-> "TypeError: args.uriParams is undefined",
                   res |-> res1]
             ELSE [calls |-> early, end |-> "poll", res |-> res1]
        ELSE [calls |-> Append(early,
                          [res |-> Arr(res1),
                           err |-> IF rsp.err THEN HttpError ELSE NULL]),
              end |-> "return", res |-> res1]

\* the callback pollSpecific hands to http.get
pollSpecificHandler(rq, rsp) ==
    [calls |-> (IF rsp.err THEN <<[res |-> NULL, err |-> HttpError]>> ELSE <<>>)
               \o <<[res |-> IF rsp.err THEN UNDEF ELSE Arr(rsp.obj),
                     err |-> NULL]>>,
     end |-> "return", res |-> rq.res]

\* doPoll(): clearTimeout(this.pollTimer) clears nothing, the field is never
\* assigned; then self.poll({}, callback)
doPoll ==
    /\ pc = "idle"
    /\ polls < MaxPolls
    /\ polls' = polls + 1
    /\ LET p == poll("doPoll", FALSE, 0, <<>>)
           d == IF p.calls = <<>> THEN [thrown |-> "none"]
                ELSE doPollCallback(p.calls[1].res, p.calls[1].err)
       IN  /\ requests' = requests \cup p.request
           /\ pollLog' = IF p.calls = <<>> THEN pollLog
                         ELSE Append(pollLog, "error")
           /\ uncaught' = IF d.thrown # "none" THEN uncaught \cup {d.thrown}
                          ELSE IF p.thrown # "none"
                          THEN uncaught \cup {p.thrown}
                          ELSE uncaught
    /\ UNCHANGED <<clientVars, snapVars, dcIndex, callVars, pollTimer,
                   listening, events, answers, userVars, lbVars>>

\* the doPoll the constructor queued with setImmediate runs
FirstPoll ==
    /\ immediate # <<>>
    /\ Head(immediate).fn = "doPoll"
    /\ immediate' = Tail(immediate)
    /\ UNCHANGED timers
    /\ doPoll

\* the timer set by a successful poll fires and runs doPoll
TimerFires ==
    /\ timers > 0
    /\ timers' = timers - 1
    /\ UNCHANGED immediate
    /\ doPoll

\* the sortAndStoreDcs a successful poll queued with setImmediate runs
Deferred ==
    /\ immediate # <<>>
    /\ Head(immediate).fn = "sortAndStoreDcs"
    /\ sortAndStoreDcs(Head(immediate).dcObj, Head(immediate).opDcObj)
    /\ immediate' = Tail(immediate)
    /\ UNCHANGED <<clientVars, dcIndex, callVars, timers, pollTimer, requests,
                   listening, runVars, userVars, lbVars>>

\* the requests that may be answered with a link to a next page
MayLink(rq, rsp) == rsp.link => rq.depth + 1 < MaxPages

\* the invocations calls of the callback of doPoll, one after the other until
\* one throws: the exception, the timers set and the functions queued
RECURSIVE runCallbacks(_, _)
runCallbacks(calls, acc) ==
    IF calls = <<>> THEN acc
    ELSE LET d == doPollCallback(Head(calls).res, Head(calls).err)
         IN  IF d.thrown # "none"
             THEN [thrown |-> d.thrown, timer |-> acc.timer, task |-> acc.task]
             ELSE runCallbacks(Tail(calls),
                               [thrown |-> "none", timer |-> acc.timer + d.timer,
                                task |-> acc.task \o d.task])

\* the answer to a request of doPoll arrives.  pollLog tells how the poll
\* ended: "error" for an HTTP error, "crash" for an exception while a good
\* answer was handled, "ok" otherwise.
PollAnswer ==
    /\ pc = "idle"
    /\ \E rq \in requests, rsp \in Responses :
          /\ rq.by = "doPoll"
          /\ MayLink(rq, rsp)
          /\ LET h == pollHandler(rq, rsp)
                 d == runCallbacks(h.calls,
                                   [thrown |-> "none", timer |-> 0, task |-> <<>>])
                 thrown == IF d.thrown # "none" THEN d.thrown
                           ELSE IF h.end \in {"poll", "return"} THEN "none"
                           ELSE h.end
                 again == d.thrown = "none" /\ h.end = "poll"
             IN  /\ timers' = timers + d.timer
                 /\ immediate' = immediate \o d.task
                 /\ uncaught' = IF thrown # "none" THEN uncaught \cup {thrown}
                                ELSE uncaught
                 /\ requests' = (requests \ {rq})
                        \cup (IF again
                              THEN poll(rq.by, rq.uriParams, rq.depth + 1,
                                        h.res).request
                              ELSE {})
                 /\ pollLog' = IF rsp.err THEN Append(pollLog, "error")
                               ELSE IF thrown # "none"
                               THEN Append(pollLog, "crash")
                               ELSE IF again THEN pollLog
                               ELSE Append(pollLog, "ok")
                 /\ answers' = IF ~rsp.err /\ thrown = "none" /\ ~again
                               THEN Append(answers, h.res)
                               ELSE answers
    /\ UNCHANGED <<clientVars, snapVars, dcIndex, callVars, pollTimer,
                   listening, events, polls, userVars, lbVars>>

\* the user calls poll(args, callback); uriParams tells whether args has the
\* optional uriParams
UserPoll(uriParams) ==
    /\ pc = "idle"
    /\ userCall = "none"
    /\ LET p == poll("user", uriParams, 0, <<>>)
       IN  /\ userCall' = "poll"
           /\ userCb' = p.calls
           /\ userThrown' = p.thrown
           /\ requests' = requests \cup p.request
    /\ UNCHANGED <<clientVars, snapVars, dcIndex, callVars, immediate, timers,
                   pollTimer, listening, events, runVars, lbVars>>

\* the user calls pollSpecific(storageid, callback)
UserPollSpecific ==
    /\ pc = "idle"
    /\ userCall = "none"
    /\ LET p == pollSpecific("user")
       IN  /\ userCall' = "pollSpecific"
           /\ userCb' = p.calls
           /\ userThrown' = p.thrown
           /\ requests' = requests \cup p.request
    /\ UNCHANGED <<clientVars, snapVars, dcIndex, callVars, immediate, timers,
                   pollTimer, listening, events, runVars, lbVars>>

\* the answer to a request of the user arrives
UserAnswer ==
    /\ pc = "idle"
    /\ \E rq \in requests, rsp \in Responses :
          /\ rq.by = "user"
          /\ MayLink(rq, rsp)
          /\ rq.api = "pollSpecific" => ~rsp.link
          /\ LET h == IF rq.api = "poll" THEN pollHandler(rq, rsp)
                      ELSE pollSpecificHandler(rq, rsp)
             IN  /\ userCb' = userCb \o h.calls
                 /\ requests' = (requests \ {rq})
                        \cup (IF h.end = "poll"
                              THEN poll(rq.by, rq.uriParams, rq.depth + 1,
                                        h.res).request
                              ELSE {})
                 /\ uncaught' = IF h.end \in {"poll", "return"} THEN uncaught
                                ELSE uncaught \cup {h.end}
    /\ UNCHANGED <<clientVars, snapVars, dcIndex, callVars, immediate, timers,
                   pollTimer, listening, events, polls, pollLog, answers,
                   userCall, userThrown, lbVars>>

\* the requests of the user's call still in flight
UserRequests == {rq \in requests : rq.by = "user"}

\* the user's call is over and forgotten
UserReturn ==
    /\ pc = "idle"
    /\ userCall # "none"
    /\ UserRequests = {}
    /\ userCall' = "none" /\ userCb' = <<>> /\ userThrown' = "none"
    /\ UNCHANGED <<clientVars, snapVars, dcIndex, callVars, loopVars,
                   listening, events, runVars, lbVars>>

\* this._storageTimer: no code of the client assigns it
storageTimer == UNDEF

\* clearTimeout(handle) on the pending timers: nothing is cancelled for a
\* handle that is undefined
clearTimeout(handle, pending) == IF handle = UNDEF THEN pending ELSE 0

\* close(): the timer is cleared through this._storageTimer, and only when
\* this.pollTimer is set; the HTTP client of a client that is not standalone
\* is closed.  Requests in flight and requests sent later are still
\* answered, by an error or by a result: 'requests' keeps them.
close ==
    /\ pc = "idle"
    /\ ~closed
    /\ closed' = TRUE
    /\ timers' = IF pollTimer # UNDEF THEN clearTimeout(storageTimer, timers)
                 ELSE timers
    /\ UNCHANGED <<configVars, snapVars, dcIndex, callVars, immediate,
                   pollTimer, requests, listening, events, runVars, userVars,
                   lbVars>>

\* a standalone client is given its snapshot by a direct call, as in the
\* test
DirectInstall ==
    /\ standalone
    /\ Len(events) < MaxPolls
    /\ \E in \in DirectInputs : Install(in.dcObj, in.opDcObj)

\* choose is called while the snapshot is refreshed.  choose and a poll call
\* of the user share no state, so the calls of choose made while a request of
\* the user is in flight are left out.
ChooseDuringRefresh ==
    /\ userCall = "none"
    /\ \E o \in PollChooseOpts : ChooseCall(o, FALSE)

PollInit ==
    /\ \E o \in PollClientOpts : StorinfoClient(o)
    /\ Idle
    /\ QuietLoop /\ listening = TRUE
    /\ NoLowerBound

PollNext ==
    \/ FirstPoll
    \/ TimerFires
    \/ PollAnswer
    \/ Deferred
    \/ DirectInstall
    \/ \E u \in BOOLEAN : UserPoll(u)
    \/ UserPollSpecific
    \/ UserAnswer
    \/ UserReturn
    \/ ChooseDuringRefresh
    \/ Host
    \/ ChooseReturn
    \/ close

PollSpec == PollInit /\ [][PollNext]_vars

\* ------------------------------------------------------------------------
\* lower_bound applied on its own

\* the arrays of objects sorted ascending by availableMB, of at most MaxLen
\* nodes with availableMB in 1 .. MaxMB
SortedSets ==
    UNION {{set \in [1..len -> {[availableMB |-> v] : v \in 1..MaxMB}] :
              \A n \in 1..(len - 1) :
                  set[n].availableMB <= set[n + 1].availableMB} :
           len \in 0..MaxLen}

\* the sizes asked for: none, every capacity, and one above the largest
LowerBoundSizes == {Num(v) : v \in 0..(MaxMB + 1)}

\* lower_bound(set, size) is called and returns
LowerBoundCall ==
    /\ lbResult = NULL
    /\ lbResult' = Num(lower_bound(lbSet, lbSize))
    /\ UNCHANGED <<clientVars, snapVars, dcIndex, callVars, pollVars, lbSet,
                   lbSize>>

LowerBoundInit ==
    /\ StorinfoClient([standalone |-> TRUE, pollInterval |-> UNDEF,
                       multiDC |-> UNDEF, defaultMaxStreamingSizeMB |-> UNDEF,
                       maxUtilizationPct |-> UNDEF])
    /\ Idle
    /\ QuietLoop /\ listening = FALSE
    /\ lbSet \in SortedSets /\ lbSize \in LowerBoundSizes /\ lbResult = NULL

LowerBoundNext == LowerBoundCall

LowerBoundSpec == LowerBoundInit /\ [][LowerBoundNext]_vars

\* ------------------------------------------------------------------------
\* Vocabulary of the properties

\* the callback was invoked with no error and the chosen sets
Succeeded == pc = "done" /\ outcome.cb = 1 /\ outcome.err = NULL

\* the sets handed to the callback (none when it got null)
ReturnedSets == IF outcome.sharks = NULL THEN <<>> ELSE outcome.sharks.val

\* the cause of the error handed to the callback ("" when there is none)
FailureCause == IF outcome.err = NULL THEN "" ELSE outcome.err.cause

\* the snapshot view of the running call is installed
ViewInstalled == viewKeys(opts).type = "array"

\* the storage node of the catalogue with the given id
NodeOf(id) ==
    CHOOSE n \in {Catalogue[k].node : k \in 1..Len(Catalogue)} :
        n.manta_storage_id = id

\* the nodes of datacenter k of the running call's view that have room for
\* the required size (none when the size is undefined: a comparison with
\* undefined is false)
QualifyingNodes(k) ==
    {n \in SeqToSet(viewMap(opts).val[k]) : atLeast(n.availableMB, size)}

\* the datacenters of the running call's view with a qualifying node
QualifyingDcs ==
    IF ~ViewInstalled THEN {}
    ELSE {k \in SeqToSet(viewKeys(opts).val) : QualifyingNodes(k) # {}}

\* every member of every returned set has room for the required size
AllReturnedQualify ==
    \A k \in 1..Len(ReturnedSets) : \A n \in 1..Len(ReturnedSets[k]) :
        NodeOf(ReturnedSets[k][n].manta_storage_id).availableMB >= size.val

\* the (set, position) pairs of the returned sets
ReturnedPositions ==
    {<<k, n>> \in (1..3) \X (1..(MaxReplicas + DEF_NUM_COPIES)) :
        k <= Len(ReturnedSets) /\ n <= Len(ReturnedSets[k])}

\* ------------------------------------------------------------------------
\* C1: a successful choose never returns the same manta_storage_id twice,
\* neither inside one replica set nor across the sets of that call.
C1_NoNodeReturnedTwice ==
    Succeeded =>
        \A p, q \in ReturnedPositions :
            p # q => ReturnedSets[p[1]][p[2]].manta_storage_id
                        # ReturnedSets[q[1]][q[2]].manta_storage_id

\* a call that returned three sets after two picks in the same datacenter
C1_Witness ==
    /\ Succeeded
    /\ Len(ReturnedSets) = 3
    /\ \E a, b \in 1..Len(hosts) :
          a # b /\ hosts[a].dc = hosts[b].dc
          /\ hosts[a].kind = "node" /\ hosts[b].kind = "node"

\* C2: every node of every set choose returns has availableMB >= the
\* required size of the call.
C2_ReturnedNodesHaveRoom == Succeeded => AllReturnedQualify

\* C3: with multiDC and replicas > 1, every returned replica set holds nodes
\* of at least two distinct datacenters.
C3_SetsSpanTwoDatacenters ==
    (Succeeded /\ multiDC /\ replicas > 1) =>
        \A k \in 1..Len(ReturnedSets) : tupleDcs(ReturnedSets[k]) >= 2

\* a multiDC call for several replicas that returned more than one set
C3_Witness ==
    Succeeded /\ multiDC /\ replicas > 1 /\ Len(ReturnedSets) >= 2

OneDatacenterSuffices ==
    /\ Cardinality(QualifyingDcs) = 1
    /\ replicas = 1 \/ ~multiDC
    /\ \A k \in QualifyingDcs : replicas <= Cardinality(QualifyingNodes(k))

NodePicks == {n \in 1..Len(hosts) : hosts[n].kind = "node"}

\* C5: a successful choose returns one to three sets, each of exactly
\* replicas members; a set with a failed pick is never kept in part.
C5_SetsAreComplete ==
    /\ \A k \in 1..Len(sharks) : Len(sharks[k]) = replicas
    /\ Succeeded =>
          /\ Len(ReturnedSets) \in 1..3
          /\ \A k \in 1..Len(ReturnedSets) : Len(ReturnedSets[k]) = replicas

\* a successful call that dropped a set after some of its picks had succeeded
C5_Witness ==
    /\ Succeeded /\ replicas > 1
    /\ \E k \in 1..Len(built) : built[k] = NULL
    /\ Cardinality(NodePicks) > replicas * Len(ReturnedSets)

\* the tuples set() returned, without the nulls
RECURSIVE NonNull(_)
NonNull(b) ==
    IF b = <<>> THEN <<>>
    ELSE IF Head(b) = NULL THEN NonNull(Tail(b))
         ELSE <<Head(b).val>> \o NonNull(Tail(b))

\* C6: only a null primary set is fatal.  A null first set ends the call
\* with the copies-exceed error and no sets; that error has no other origin;
\* a null second or third set does not end the call, and a successful call
\* returns exactly the sets that were built, in order.
C6_OnlyPrimaryFailureIsFatal ==
    /\ (pc = "done" /\ built # <<>> /\ built[1] = NULL) =>
          (outcome = Failed(size, COPIES_EXCEED) /\ ReturnedSets = <<>>)
    /\ FailureCause = COPIES_EXCEED => built = <<NULL>>
    /\ (pc = "done" /\ Len(built) >= 2 /\ built[Len(built)] = NULL
           /\ outcome.thrown = "none") => Succeeded
    /\ Succeeded =>
          (Len(built) = 3 /\ built[1] # NULL /\ ReturnedSets = NonNull(built))

\* a successful call whose second set is missing and whose third is present
C6_Witness ==
    Succeeded /\ built[2] = NULL /\ built[3] # NULL

\* the default size the client was configured with (README: 5120 MB when
\* defaultMaxStreamingSizeMB is not given)
ConfiguredDefaultMB ==
    IF created.defaultMaxStreamingSizeMB = UNDEF
    THEN Num(DEF_MAX_STREAMING_SIZE_MB)
    ELSE created.defaultMaxStreamingSizeMB

\* the size the call has to find room for
RequiredMB == IF size.type = "number" THEN size.val ELSE ConfiguredDefaultMB.val

\* no node of the view of the running call has room for the required size
NoNodeHasRoom ==
    \A k \in SeqToSet(viewKeys(opts).val) :
        \A n \in SeqToSet(viewMap(opts).val[k]) : n.availableMB < RequiredMB

\* C7: when no datacenter of the selected view has a node with room, choose
\* reports NotEnoughSpaceError with the no-DC cause, returns no sets and
\* makes no host() pick.
C7_NoRoomIsReported ==
    (pc = "done" /\ ViewInstalled /\ NoNodeHasRoom) =>
        (outcome = Failed(size, NO_DC) /\ hosts = <<>>)

\* C8: the too-few-datacenters cause is reported exactly when replicas > 1,
\* multiDC is on and exactly one datacenter qualifies; with replicas = 1 or
\* multiDC off neither the candidate count nor the spread check fails the
\* call, and a single qualifying datacenter is picked from.
C8_TooFewDatacenters ==
    pc = "done" =>
        /\ FailureCause = FEW_DCS <=>
              (replicas > 1 /\ multiDC /\ Cardinality(QualifyingDcs) = 1)
        /\ (replicas = 1 \/ ~multiDC) =>
              /\ FailureCause \notin {FEW_DCS, FEW_DCS_SELECTED}
              /\ Cardinality(QualifyingDcs) = 1 => hosts # <<>>

\* a call that failed because only one datacenter qualified
C8_Witness ==
    /\ pc = "done" /\ FailureCause = FEW_DCS
    /\ replicas > 1 /\ multiDC /\ Cardinality(QualifyingDcs) = 1

\* C9: a request without a size is filtered with the configured default
\* maximum size, 5120 MB when none was configured, whatever the client.
C9_DefaultSizeIsUsed ==
    (pc # "idle" /\ ViewInstalled /\ opts.size = 0) => size = ConfiguredDefaultMB

\* C10: choose called before any snapshot was installed reports
\* NotEnoughSpaceError with the no-DC cause, and fails in no other way.
C10_ChooseBeforeInstall ==
    (pc = "done" /\ dcSharkMap = NULL) =>
        (outcome.cb = 1 /\ FailureCause = NO_DC /\ outcome.thrown = "none")

\* ------------------------------------------------------------------------
\* Vocabulary of the refresh properties

\* the fields as the constructor leaves them
Constructed ==
    [datacenters |-> NULL, operatorDatacenters |-> UNDEF,
     dcSharkMap |-> NULL, operatorDcSharkMap |-> NULL]

\* the key array keys lists exactly the properties of the map
KeysMatch(keys, map) ==
    /\ keys.type = "array" /\ map.type = "object"
    /\ SeqToSet(keys.val) = DOMAIN map.val
    /\ Len(keys.val) = Cardinality(DOMAIN map.val)

\* the four fields snap are those one run of sortAndStoreDcs on the
\* arguments in assigns
FromOneRun(snap, in) ==
    /\ KeysMatch(snap.datacenters, snap.dcSharkMap)
    /\ KeysMatch(snap.operatorDatacenters, snap.operatorDcSharkMap)
    /\ snap.datacenters.val = in.dcObj.keys
    /\ snap.operatorDatacenters.val = in.opDcObj.keys
    /\ snap.dcSharkMap.val \in sortedMaps(in.dcObj.val)
    /\ snap.operatorDcSharkMap.val \in sortedMaps(in.opDcObj.val)

\* the fields are all as constructed, or all from the latest refresh
Coherent ==
    IF refresh = NULL THEN snapshot = Constructed
    ELSE FromOneRun(snapshot, refresh)

\* C11: every choose call, from its start to its end, reads four snapshot
\* fields that come from one and the same run of sortAndStoreDcs (the key
\* arrays list exactly the keys of the maps), and no field changes while the
\* call runs, however polls, deferred installs and choose calls interleave.
C11_ChooseSeesOneRefresh ==
    /\ [](pc # "idle" => Coherent)
    /\ [][pc # "idle" => UNCHANGED snapVars]_vars

\* a choose call picks from the installed snapshot while a poll has queued a
\* different one that is not installed yet
C11_Witness ==
    /\ pc = "picking" /\ hosts # <<>>
    /\ refresh # NULL
    /\ immediate # <<>> /\ Head(immediate).fn = "sortAndStoreDcs"
    /\ Head(immediate).opDcObj # refresh.opDcObj

\* how many runs of sortAndStoreDcs wait in the setImmediate queue
RECURSIVE QueuedInstalls(_)
QueuedInstalls(q) ==
    IF q = <<>> THEN 0
    ELSE (IF Head(q).fn = "sortAndStoreDcs" THEN 1 ELSE 0)
         + QueuedInstalls(Tail(q))

\* how many runs of doPoll ended with a result and no error
RECURSIVE OkPolls(_)
OkPolls(log) ==
    IF log = <<>> THEN 0
    ELSE (IF Head(log) = "ok" THEN 1 ELSE 0) + OkPolls(Tail(log))

\* this step ends a poll of doPoll with an error
PollFails ==
    Len(pollLog') = Len(pollLog) + 1 /\ pollLog'[Len(pollLog')] # "ok"

\* C12: the step that ends a poll with an error (an HTTP error, or an
\* exception while the answer is handled) changes none of the snapshot fields
\* and queues no installation; on a polling client every installation, done
\* or queued, stems from a poll that ended without an error.
C12_FailedPollKeepsSnapshot ==
    /\ [][PollFails => (UNCHANGED snapVars /\ immediate' = immediate)]_vars
    /\ [](~standalone => Len(events) + QueuedInstalls(immediate)
                            = OkPolls(pollLog))

\* a poll failed after an earlier poll had installed a snapshot with nodes,
\* and that snapshot is still the installed one
C12_Witness ==
    /\ Len(pollLog) = 2 /\ pollLog[1] = "ok" /\ pollLog[2] = "error"
    /\ immediate = <<>> /\ Len(events) = 1
    /\ datacenters.type = "array" /\ datacenters.val # <<>>
    /\ snapshot = events[1].seen

\* C13: on a standalone client poll and pollSpecific invoke the callback
\* exactly once, with a null result and a StandaloneModeError, send no
\* request and fail in no other way.
C13_StandalonePollOnlyReports ==
    (standalone /\ userCall # "none") =>
        /\ userCb = <<[res |-> NULL, err |-> StandaloneModeError]>>
        /\ UserRequests = {}
        /\ userThrown = "none"

\* an invocation of the user's callback as documented: a result and a null
\* error, or a null result and an error
WellFormed(c) ==
    \/ c.err = NULL /\ c.res \notin {NULL, UNDEF}
    \/ c.err # NULL /\ c.res = NULL

\* C14: a poll or pollSpecific call on a client that is not standalone
\* invokes its callback at most once while its request is in flight and
\* exactly once when it is over, each time with a result and a null error or
\* with a null result and the error.
C14_CallbackInvokedOnce ==
    (~standalone /\ userCall # "none") =>
        /\ Len(userCb) <= 1
        /\ \A n \in 1..Len(userCb) : WellFormed(userCb[n])
        /\ UserRequests = {} => Len(userCb) = 1

\* the latest 'topology' event carries the maps of the latest run of
\* sortAndStoreDcs, and its listener read the four fields as that run left
\* them
LatestEventShowsSnapshot ==
    events # <<>> =>
        LET e == events[Len(events)]
        IN  /\ e.seen = snapshot
            /\ FromOneRun(e.seen, refresh)
            /\ e.payload = <<dcSharkMap, operatorDcSharkMap>>

\* this step ends a poll of doPoll with a result and no error
PollSucceeds ==
    Len(pollLog') = Len(pollLog) + 1 /\ pollLog'[Len(pollLog')] = "ok"

\* this step emits a 'topology' event
Emits == Len(events') # Len(events)

\* C15: on a polling client every poll that ends with a result and no error
\* queues exactly one run of sortAndStoreDcs, so the runs queued or done are
\* as many as those polls; every run emits exactly one 'topology' event, as
\* its last effect; the event carries the maps just installed, and a
\* listener (a choose call made from it) reads the four new fields.
C15_GoodPollInstallsAndEmitsOnce ==
    /\ [](~standalone =>
             /\ Len(events) + QueuedInstalls(immediate) = OkPolls(pollLog)
             /\ LatestEventShowsSnapshot)
    /\ [][PollSucceeds => QueuedInstalls(immediate')
                             = QueuedInstalls(immediate) + 1]_vars
    /\ [][(Emits /\ ~standalone) =>
             /\ Len(events') = Len(events) + 1
             /\ QueuedInstalls(immediate') = QueuedInstalls(immediate) - 1
             /\ refresh' = [dcObj |-> Head(immediate).dcObj,
                            opDcObj |-> Head(immediate).opDcObj]]_vars

\* two polls succeeded with different answers, and each was followed by its
\* own installation and event
C15_Witness ==
    /\ ~standalone /\ OkPolls(pollLog) = 2 /\ Len(events) = 2
    /\ events[1].payload # events[2].payload
    /\ events[2].seen.datacenters.val # <<>>

\* the list is in ascending order of availableMB
Ascending(list) ==
    \A n \in 1..(Len(list) - 1) : list[n].availableMB <= list[n + 1].availableMB

\* every list of the map is in ascending order of availableMB
AllAscending(map) ==
    map.type = "object" => \A k \in DOMAIN map.val : Ascending(map.val[k])

\* C16: in every installed snapshot every datacenter list of the normal and
\* of the operator view is sorted ascending by availableMB, whatever the
\* order of the nodes in the answer of the poll or in the maps handed to
\* sortAndStoreDcs.
C16_InstalledListsAreSorted ==
    AllAscending(dcSharkMap) /\ AllAscending(operatorDcSharkMap)

\* a snapshot installed from maps that held a list out of order in both views
C16_Witness ==
    /\ refresh # NULL
    /\ \E k \in DOMAIN refresh.dcObj.val : ~Ascending(refresh.dcObj.val[k])
    /\ \E k \in DOMAIN refresh.opDcObj.val : ~Ascending(refresh.opDcObj.val[k])
    /\ ~standalone

\* the maximum utilization the client was configured with (README: 90 when
\* maxUtilizationPct is not given)
ConfiguredUtilization ==
    IF created.maxUtilizationPct = UNDEF THEN DEF_MAX_PERCENT_UTIL
    ELSE created.maxUtilizationPct.val

\* how often x occurs in the sequence list
RECURSIVE Count(_, _)
Count(list, x) ==
    IF list = <<>> THEN 0
    ELSE (IF Head(list) = x THEN 1 ELSE 0) + Count(Tail(list), x)

\* the list stored under datacenter dc in the map (empty when there is none)
ListOf(map, dc) == IF dc \in DOMAIN map.val THEN map.val[dc] ELSE <<>>

\* the datacenter names and the nodes of an answer
DcsOf(answer) == {answer[n].datacenter : n \in 1..Len(answer)}

\* the view holds every node of the answer that satisfies Keep(node), as
\* often as the answer does and under its own datacenter, and nothing else
HoldsExactly(view, answer, Keep(_)) ==
    LET kept == SelectSeq(answer, Keep)
    IN  /\ DOMAIN view.val = DcsOf(kept)
        /\ \A dc \in DOMAIN view.val :
              /\ \A n \in 1..Len(view.val[dc]) :
                    /\ view.val[dc][n].datacenter = dc
                    /\ Count(kept, view.val[dc][n])
                          = Count(view.val[dc], view.val[dc][n])
              /\ \A n \in 1..Len(kept) :
                    kept[n].datacenter = dc =>
                        Count(view.val[dc], kept[n]) = Count(kept, kept[n])

\* every node of the normal view is, with the same fields, in the list of the
\* same datacenter of the operator view
NormalWithinOperator(normal, operator) ==
    \A dc \in DOMAIN normal.val : \A n \in 1..Len(normal.val[dc]) :
        Count(ListOf(operator, dc), normal.val[dc][n]) >= 1

WithinThreshold(v) == v.percentUsed <= ConfiguredUtilization
AnyNode(v) == TRUE

DefaultArguments == opts = [size |-> 0, replicas |-> 0, isOperator |-> FALSE]

\* the normal view holds at least two datacenters with equally many nodes,
\* each node under its own datacenter and with room for the configured
\* default size
UniformSnapshot ==
    /\ datacenters.type = "array" /\ Len(datacenters.val) >= 2
    /\ \A j, k \in DOMAIN dcSharkMap.val :
          Len(dcSharkMap.val[j]) = Len(dcSharkMap.val[k])
    /\ \A k \in DOMAIN dcSharkMap.val : \A n \in 1..Len(dcSharkMap.val[k]) :
          /\ dcSharkMap.val[k][n].datacenter = k
          /\ dcSharkMap.val[k][n].availableMB >= ConfiguredDefaultMB.val

\* C18 (the part that is a property of single calls; closeness of the
\* selection counts to a uniform distribution is a statement about
\* probabilities and is not expressed here): a choose call with default
\* arguments on a snapshot with uniform capacity in every datacenter never
\* fails.
C18_DefaultCallsNeverFail ==
    (pc = "done" /\ DefaultArguments /\ UniformSnapshot) => Succeeded

\* C19: in every host() pick the offset that starts the random range and the
\* circular scan is the lower_bound of the list of the very datacenter that
\* is indexed, for the size of the call; the shuffle keeps the two paired.
C19_OffsetBelongsToDatacenter ==
    \A n \in 1..Len(hosts) :
        hosts[n].off = lower_bound(viewMap(opts).val[hosts[n].dc], size)

\* the 0-based indices of the nodes of the list with room for the size
RoomIndices(set, sz) ==
    {n \in 0..(Len(set) - 1) : set[n + 1].availableMB >= sz.val}

\* C20: on a list sorted ascending by availableMB, lower_bound returns the
\* smallest index of a node with availableMB >= size, and -1 when there is
\* none: -1 on the empty list, 0 when every node has room, -1 when the size
\* is above the largest node.
C20_LowerBoundIsSmallestIndex ==
    lbResult # NULL =>
        /\ RoomIndices(lbSet, lbSize) = {} => lbResult.val = -1
        /\ RoomIndices(lbSet, lbSize) # {} =>
              /\ lbResult.val \in RoomIndices(lbSet, lbSize)
              /\ \A n \in RoomIndices(lbSet, lbSize) : lbResult.val <= n
        /\ lbSet = <<>> => lbResult.val = -1
        /\ (lbSet # <<>> /\ lbSet[1].availableMB >= lbSize.val) =>
              lbResult.val = 0
        /\ (lbSet # <<>> /\ lbSet[Len(lbSet)].availableMB < lbSize.val) =>
              lbResult.val = -1

\* the search returned an inner index: nodes too small before it, and several
\* nodes of exactly the size from it on
C20_Witness ==
    /\ lbResult # NULL /\ lbResult.val >= 1
    /\ Len(lbSet) > lbResult.val + 1
    /\ lbSet[lbResult.val + 1].availableMB = lbSize.val
    /\ lbSet[lbResult.val + 2].availableMB = lbSize.val

\* ------------------------------------------------------------------------
\* Vocabulary of the picks of a call

\* the list host() call n of the running call indexed
PickedList(n) == viewMap(opts).val[hosts[n].dc]

\* the id of the node host() call n returned
PickedId(n) == PickedList(n)[hosts[n].s + 1].manta_storage_id

\* the seen list as host() call n found it: the ids returned before, in order
RECURSIVE SeenUpTo(_)
SeenUpTo(n) ==
    IF n = 0 THEN <<>>
    ELSE IF hosts[n].kind = "node" THEN Append(SeenUpTo(n - 1), PickedId(n))
         ELSE SeenUpTo(n - 1)

\* the positions off .. len - 1 of the list host() call n scanned
SubRange(n) == hosts[n].off..(hosts[n].len - 1)

\* every node of the sub-range of call n was in seen when the call began
SubRangeSeen(n) ==
    \A p \in SubRange(n) :
        indexOf(SeenUpTo(n - 1), PickedList(n)[p + 1].manta_storage_id) # -1

\* C21: a host() pick returns null exactly when every node of the sub-range
\* [offset, len) of its datacenter is already in seen; otherwise it returns a
\* node of the sub-range that was not in seen, and seen gains exactly that
\* id.  (No pick ends in any third way.)
C21_PickIsNullIffRangeSeen ==
    /\ \A n \in 1..Len(hosts) :
          /\ hosts[n].kind = "null" <=> SubRangeSeen(n)
          /\ hosts[n].kind # "null" =>
                /\ hosts[n].kind = "node"
                /\ hosts[n].s \in SubRange(n)
                /\ indexOf(SeenUpTo(n - 1), PickedId(n)) = -1
    /\ seen = SeenUpTo(Len(hosts))

\* C22 (as stated): every host() call, a null one included, leaves the
\* cursor at (dcIndex + 1) mod n, n the number of candidate datacenters of
\* the call, whatever value dcIndex had before.
C22_CursorAdvancesModulo ==
    \A n \in 1..Len(hosts) :
        hosts[n].ndx = (hosts[n].from + 1) % Len(dcs)

\* C22 (amended): every host() call, a null or throwing one included, leaves
\* the cursor at dcIndex + 1 when that is below n and at 0 otherwise; the new
\* cursor is always within 0 .. n - 1, it is the modular successor whenever
\* the old cursor was below n, and the client's dcIndex is the cursor the
\* latest host() call left.
C22_CursorAdvancesOrResets ==
    /\ \A n \in 1..Len(hosts) :
          /\ hosts[n].ndx = IF hosts[n].from + 1 >= Len(dcs)
                            THEN 0 ELSE hosts[n].from + 1
          /\ hosts[n].ndx \in 0..(Len(dcs) - 1)
          /\ hosts[n].from < Len(dcs) =>
                hosts[n].ndx = (hosts[n].from + 1) % Len(dcs)
    /\ hosts # <<>> => dcIndex = hosts[Len(hosts)].ndx

\* a host() call found the cursor at or beyond the number of candidates, left
\* there by an earlier call with more candidates, reset it to 0 and returned
\* a node
C22_Witness ==
    \E n \in 1..Len(hosts) :
        /\ hosts[n].from >= Len(dcs)
        /\ hosts[n].ndx = 0
        /\ hosts[n].kind = "node"

\* the running call passed the validation of its candidate datacenters and
\* has made a host() pick
Picking == hosts # <<>>

\* the nodes with room for the required size in the candidate datacenters of
\* the running call
CandidateNodes == UNION {QualifyingNodes(dcs[k]) : k \in 1..Len(dcs)}

PrimaryVisits(ix) ==
    Cardinality({j \in 0..(replicas - 1) :
                    (hosts[1].ndx + j) % Len(dcs) = ix})

\* the number of positions host() scans at index ix of dcs: from the offset
\* at that index to the end of the list of the datacenter at that index
ScannedRoom(ix) == Len(viewMap(opts).val[dcs[ix + 1]]) - offsets[ix + 1]

\* the primary set asks some candidate for more nodes than host() scans there
PrimaryOverdraws ==
    \E ix \in 0..(Len(dcs) - 1) :
        PrimaryVisits(ix) > 0 /\ PrimaryVisits(ix) > ScannedRoom(ix)

\* every offset of the running call is the lower_bound of the list of the
\* datacenter at the same index
OffsetsPaired ==
    \A k \in 1..Len(dcs) :
        offsets[k] = lower_bound(viewMap(opts).val[dcs[k]], size)

NodesOfMap(m) == UNION {SeqToSet(m.val[k]) : k \in DOMAIN m.val}

\* the map and the key array the isOperator flag of the running call selects
SelectedMap == IF opts.isOperator THEN operatorDcSharkMap ELSE dcSharkMap
SelectedKeys == IF opts.isOperator THEN operatorDatacenters ELSE datacenters

\* the members of the sets handed to the callback
ReturnedMembers ==
    {ReturnedSets[p[1]][p[2]] : p \in ReturnedPositions}

\* the nodes of the selected map a returned member may stand for
StandsFor(member) ==
    {n \in NodesOfMap(SelectedMap) :
        /\ n.manta_storage_id = member.manta_storage_id
        /\ n.datacenter = member.datacenter}

\* C24: one call reads one view, selected by isOperator, for filtering and
\* for picking: its candidate datacenters are keys of the selected view,
\* every host() pick indexes a list of the selected view within its length,
\* and every returned member is a node of the selected view.  A non-operator
\* call on a client whose snapshot came from polls therefore returns only
\* nodes with percentUsed <= maxUtilization.
C24_CallReadsTheSelectedView ==
    /\ Picking =>
          /\ SeqToSet(dcs) \subseteq SeqToSet(SelectedKeys.val)
          /\ \A n \in 1..Len(hosts) :
                /\ hosts[n].len = Len(SelectedMap.val[hosts[n].dc])
                /\ hosts[n].dc \in SeqToSet(SelectedKeys.val)
    /\ Succeeded =>
          /\ \A member \in ReturnedMembers : StandsFor(member) # {}
          /\ (~opts.isOperator /\ ~standalone /\ utilization # UNDEF) =>
                \A member \in ReturnedMembers : \A n \in StandsFor(member) :
                    n.percentUsed <= utilization.val

\* a non-operator call succeeded on a polled snapshot whose operator view
\* holds, in a datacenter of the normal view, a node above the threshold
\* with room for the request
C24_Witness ==
    /\ Succeeded /\ ~opts.isOperator /\ ~standalone /\ ReturnedMembers # {}
    /\ \E k \in SeqToSet(datacenters.val) :
          \E n \in SeqToSet(operatorDcSharkMap.val[k]) :
              /\ n.percentUsed > utilization.val
              /\ n.availableMB >= size.val

\* the candidate datacenters of the running call do not pass the validation
\* (none, or a single one when several copies must span datacenters)
FailsValidation ==
    Len(dcs) = 0 \/ (replicas > 1 /\ multiDC /\ Len(dcs) < 2)

\* C25: no step of a choose call changes the installed snapshot (the two
\* maps and the two key arrays keep their contents and order) or any field
\* of the client other than dcIndex; and dcIndex keeps its value in a call
\* whose candidates fail the validation.
C25_ChooseOnlyMovesTheCursor ==
    [][(pc # "idle" \/ pc' # "idle") =>
          /\ UNCHANGED <<dcSharkMap, operatorDcSharkMap, datacenters,
                         operatorDatacenters>>
          /\ UNCHANGED clientVars
          /\ (pc' # "idle" /\ FailsValidation') => dcIndex' = dcIndex]_vars

\* a call failed the validation on an installed snapshot with several
\* datacenters, after earlier calls had moved the cursor
C25_Witness ==
    /\ pc = "done" /\ FailureCause \in {NO_DC, FEW_DCS}
    /\ ViewInstalled /\ Len(viewKeys(opts).val) >= 2
    /\ dcIndex >= 1

\* C26: every index host() uses is in bounds (the cursor within the
\* candidate datacenters, the position s within the list it indexes), so a
\* call that reaches host() completes by invoking its callback exactly once,
\* with an error and no sets or with no error and the sets.
C26_IndicesInBoundsAndOneCallback ==
    /\ \A n \in 1..Len(hosts) :
          /\ hosts[n].ndx \in 0..(Len(dcs) - 1)
          /\ hosts[n].kind # "null" => hosts[n].s \in 0..(hosts[n].len - 1)
    /\ (pc = "done" /\ Picking) =>
          /\ outcome.thrown = "none" /\ outcome.cb = 1
          /\ \/ outcome.err # NULL /\ outcome.sharks = NULL
             \/ outcome.err = NULL /\ outcome.sharks # NULL

\* every node of the selected view is stored under the key that is its
\* datacenter field
KeysAreDatacenters ==
    /\ ViewInstalled
    /\ \A k \in DOMAIN SelectedMap.val :
          \A n \in SeqToSet(SelectedMap.val[k]) : n.datacenter = k

\* consecutive members of a sequence of picked nodes are of different
\* datacenters
Alternates(t) ==
    \A k \in 1..(Len(t) - 1) : t[k].datacenter # t[k + 1].datacenter

\* C27: when every node of the view is stored under its own datacenter,
\* multiDC is on and replicas > 1, consecutive members of every set of a call
\* that passed validation (the sets kept and the one being built) come from
\* different datacenters, and the call never reports the cause
\* 'insufficient number of DCs selected'.
C27_SpreadCheckNeverFails ==
    (KeysAreDatacenters /\ multiDC /\ replicas > 1 /\ Picking) =>
        /\ Alternates(tuple)
        /\ \A k \in 1..Len(sharks) : Alternates(sharks[k])
        /\ \A k \in 1..Len(built) : built[k] # NULL => Alternates(built[k].val)
        /\ FailureCause # FEW_DCS_SELECTED

\* a successful multiDC call for three copies over two candidate
\* datacenters, each node under its own datacenter: the set went round the
\* candidates and came back to the first
C27_Witness ==
    /\ Succeeded /\ KeysAreDatacenters /\ multiDC
    /\ replicas = 3 /\ Len(dcs) = 2
    /\ ReturnedSets[1][1].datacenter = ReturnedSets[1][3].datacenter

\* ------------------------------------------------------------------------
\* Vocabulary of the periodic refresh

\* the client was created to poll periodically
Polling == ~standalone /\ pollInterval # UNDEF

\* something that will run doPoll again, or that belongs to a poll still
\* under way, is left in the event loop: a timer, a queued doPoll, or a
\* request of doPoll in flight
RetryPending ==
    \/ timers > 0
    \/ \E k \in 1..Len(immediate) : immediate[k].fn = "doPoll"
    \/ \E rq \in requests : rq.by = "doPoll"

\* the latest poll of doPoll ended with an error
LastPollFailed == pollLog # <<>> /\ pollLog[Len(pollLog)] = "error"

\* C28: polling goes on after a failure.  When the latest poll of a polling
\* client ended with an error, another poll is still to come: the event loop
\* holds what will issue it, so one failed poll does not end the periodic
\* refresh.
C28_FailedPollLeavesRetryPending ==
    (Polling /\ LastPollFailed) => RetryPending

\* C29: after close() on a polling client the pending poll timer is
\* cancelled: a closed client has no timer pending, and no step taken once
\* the client is closed starts a poll, installs a snapshot or emits a
\* 'topology' event.
C29_NothingHappensAfterClose ==
    /\ []((closed /\ Polling) => timers = 0)
    /\ [][(closed /\ Polling) =>
             /\ polls' = polls
             /\ events' = events
             /\ UNCHANGED <<dcSharkMap, operatorDcSharkMap, datacenters,
                            operatorDatacenters>>]_vars

=============================================================================
